---- MODULE Spec2Model ----
(***************************************************************************)
(* Model of scripts/bundle_lighting.py: discovery of lighting-related      *)
(* files in a repository tree and rendering of the bundle document.        *)
(*                                                                         *)
(* A path is a sequence of segments.  A segment (one directory or file     *)
(* name) is a sequence of text chunks whose concatenation is the name, so  *)
(* that both whole-name comparisons (membership in SKIP_DIRS, the suffix)  *)
(* and string-prefix comparisons (str.startswith) are computed, the latter *)
(* on the chunk sequence of the whole path string.                         *)
(***************************************************************************)
EXTENDS Integers, Sequences, FiniteSets, TLC

(* ---------------------------- bounds ---------------------------------- *)

\* at most this many directory entries (files, symlinks) exist in the tree
MaxFiles == 3

(* --------------------------- sequences -------------------------------- *)

IsPrefix(s, t) == /\ Len(s) <= Len(t)
                  /\ \A i \in 1..Len(s) : s[i] = t[i]

Range(s) == { s[i] : i \in 1..Len(s) }

RECURSIVE Flatten(_)
Flatten(ss) == IF ss = <<>> THEN <<>> ELSE Head(ss) \o Flatten(Tail(ss))

\* all orderings of the finite set S
RECURSIVE Perms(_)
Perms(S) == IF S = {} THEN { <<>> }
            ELSE UNION { { <<x>> \o p : p \in Perms(S \ {x}) } : x \in S }

Index(s, x) == CHOOSE i \in 1..Len(s) : s[i] = x

(* ------------------------- configuration ------------------------------ *)

SKIP_DIRS == { <<".git">>, <<"target">>, <<"old-codebase">>, <<"assets">>,
               <<"showcase_output">>, <<"schematics">>, <<"worlds">>,
               <<".claude">> }

\* CODE_EXTS as it would be with markdown files bundled too
CODE_EXTS_md == [ e \in {".rs", ".toml", ".ron", ".md"} |->
                    CASE e = ".rs"   -> "rust"
                      [] e = ".toml" -> "toml"
                      [] e = ".ron"  -> "ron"
                      [] e = ".md"   -> "markdown" ]

CODE_EXTS == [ e \in {".rs", ".toml", ".ron"} |->
                 CASE e = ".rs"   -> "rust"
                   [] e = ".toml" -> "toml"
                   [] e = ".ron"  -> "ron" ]

\* the words that \bLighting(Store|Border|s|)\b can match as a whole word
PatLighting == { "Lighting", "LightingStore", "LightingBorder", "Lightings" }

\* the words that \bLight(Borders|Emitter|ing|)\b can match as a whole word
PatLight == { "Light", "LightBorders", "LightEmitter", "Lighting" }

\* a text is a sequence of tokens: maximal runs of word characters,
\* alternating with the runs of non-word characters between them
PATTERNS(text) ==
    \/ \E i \in 1..Len(text) : text[i] = "geist_lighting"
    \/ \E i \in 1..Len(text) : text[i] \in PatLighting
    \/ \E i \in 1..Len(text) : text[i] \in PatLight
    \/ \E i \in 1..(Len(text) - 2) : /\ text[i] = "RebuildCause"
                                     /\ text[i+1] = "::"
                                     /\ text[i+2] = "LightingBorder"

(* --------------------------- path algebra ----------------------------- *)

\* str(path): the path's text, every segment preceded by the separator
Str(path) == Flatten([ i \in 1..Len(path) |-> <<"/">> \o path[i] ])

\* path.parts of an absolute path: the anchor and the segment names
Parts(path) == { <<"/">> } \cup Range(path)

\* the final chunks pathlib recognises as a suffix in this model's names
Suffixes == { ".rs", ".toml", ".ron", ".md" }

\* path.suffix: the last dot-part of the final name, "" when the name has
\* none or consists of the dot-part alone (a hidden file such as ".rs")
Suffix(path) ==
    LET name == path[Len(path)]
    IN  IF Len(name) >= 2 /\ name[Len(name)] \in Suffixes
        THEN name[Len(name)] ELSE ""

Parent(path) == SubSeq(path, 1, Len(path) - 1)

(* ------------------------ the repository tree ------------------------- *)

\* Path(__file__).resolve().parents[1]: where the repository is checked out
REPO_ROOT == << <<"home">>, <<"dev">>, <<"geist">> >>

\* crates/geist-lighting, relative to the repository root
PrimaryRel == << <<"crates">>, <<"geist-lighting">> >>

SrcA  == PrimaryRel \o << <<"src">>, <<"a", ".rs">> >>
SrcK  == PrimaryRel \o << <<"src">>, <<"k", ".toml">> >>
TgtT  == PrimaryRel \o << <<"target">>, <<"t", ".rs">> >>
LnkL  == PrimaryRel \o << <<"l", ".rs">> >>
Readme == PrimaryRel \o << <<"README", ".md">> >>
OthB  == << <<"other">>, <<"b", ".rs">> >>
OthC  == << <<"other">>, <<"c", ".toml">> >>
SkpD  == << <<"target">>, <<"d", ".ron">> >>
MacM  == << <<"crates">>, <<"geist-lighting", "-macros">>, <<"m", ".rs">> >>

\* the directory entries a tree may hold (paths relative to the root)
CandSeq == << SrcA, SrcK, TgtT, LnkL, Readme, OthB, OthC, SkpD, MacM >>
Cand == Range(CandSeq)

\* the entries that are symbolic links, and what each points at
Links == { SrcK, LnkL }
LinkTarget(rel) == IF rel = SrcK THEN SrcA ELSE OthB

\* file texts: one matched by each pattern, and one matched by none
MatchTexts == << << "use", " ", "geist_lighting", "::", "LightGrid" >>,
                 << "struct", " ", "LightingStore" >>,
                 << "impl", " ", "LightEmitter" >>,
                 << "RebuildCause", "::", "LightingBorder" >> >>
MissText == << "Lighter", " ", "LightingStores", " ", "geist_lighting2",
               " ", "RebuildCause", ":", "LightBorder" >>
MatchText(rel) == MatchTexts[(Index(CandSeq, rel) % Len(MatchTexts)) + 1]

\* what a regular file can be: readable with either text, or unreadable
FileOf(rel, kind) ==
    CASE rel \in Links       -> [ text |-> <<>>, readable |-> TRUE ]
      [] kind = "match"      -> [ text |-> MatchText(rel), readable |-> TRUE ]
      [] kind = "miss"       -> [ text |-> MissText, readable |-> TRUE ]
      [] OTHER               -> [ text |-> MissText, readable |-> FALSE ]
Kinds(rel) == IF rel \in Links THEN { "link" }
              ELSE { "match", "miss", "unreadable" }

\* the directories of a tree: every proper prefix of an entry's path
DirsOf(present) ==
    UNION { { SubSeq(p, 1, k) : k \in 0..(Len(p) - 1) } : p \in present }

\* s without its repeated elements, the first occurrence of each kept
RECURSIVE Uniq(_)
Uniq(s) == IF s = <<>> THEN <<>>
           ELSE LET r == Uniq(SubSeq(s, 1, Len(s) - 1))
                    x == s[Len(s)]
                IN  IF x \in Range(r) THEN r ELSE Append(r, x)

\* one directory's listing under the enumeration order perm of the entries:
\* its files, and its subdirectories
Listing(d, perm) ==
    LET below == SelectSeq(perm, LAMBDA p : IsPrefix(d, p) /\ p # d)
        deep  == SelectSeq(below, LAMBDA p : Len(p) > Len(d) + 1)
    IN  [ files |-> SelectSeq(below, LAMBDA p : Len(p) = Len(d) + 1),
          dirs  |-> Uniq([ i \in 1..Len(deep) |->
                              SubSeq(deep[i], 1, Len(d) + 1) ]) ]

\* the listings of a tree's directories the OS can give
Scans(present) ==
    { [ d \in DirsOf(present) \cup { <<>> } |-> Listing(d, perm) ] :
        perm \in Perms(present) }

\* the trees with the entries present
Trees(present) ==
    { [ p \in present |-> FileOf(p, kinds[p]) ] :
        kinds \in { k \in [ present -> { "match", "miss", "unreadable", "link" } ] :
                      \A p \in present : k[p] \in Kinds(p) } }

(* ------------------------------ state --------------------------------- *)

VARIABLES
    fs,          \* entry (relative path) -> [text, readable]
    scan,        \* directory (relative path) -> [files, dirs], in OS order
    out,         \* lines of LightingBundle.md, <<>> when it does not exist
    clock,       \* the time, in seconds
    pc,          \* position of the running main()
    files,       \* discover_files: files, as collected by the two phases
    ordered,     \* discover_files: ordered (its result)
    ret,         \* main's return value, -1 while running
    writes,      \* writes of the output file made by this run
    run,         \* 1 for the first invocation, 2 for the second
    prev         \* the output file as this run found it (out), and the
                 \* result of the run before it (ordered, ret)

vars == << fs, scan, out, clock, pc, files, ordered, ret,
           writes, run, prev >>

(* ------------------------ filesystem queries -------------------------- *)

lighting_crate == REPO_ROOT \o PrimaryRel

OUTPUT_PATH == REPO_ROOT \o << <<"LightingBundle", ".md">> >>

\* p.relative_to(REPO_ROOT)
relative_to(path) == SubSeq(path, Len(REPO_ROOT) + 1, Len(path))

\* the text of a line sequence, as read back from the output file
DocText(lines) == Flatten([ i \in 1..Len(lines) |-> lines[i].text ])

\* Path.exists() of a directory
exists(path) == relative_to(path) \in DOMAIN scan

\* Path.is_file(): follows a symbolic link, false when it dangles
is_file(path) ==
    LET rel == relative_to(path)
    IN  IF path = OUTPUT_PATH THEN out # <<>>
        ELSE /\ rel \in DOMAIN fs
             /\ rel \in Links => LinkTarget(rel) \in DOMAIN fs

\* Path.resolve(): the path with symbolic links followed
resolve(path) ==
    LET rel == relative_to(path)
    IN  IF rel \in Links THEN REPO_ROOT \o LinkTarget(rel) ELSE path

\* Path.read_text() of an existing file: ok is false when it raises
read_text(path) ==
    IF path = OUTPUT_PATH THEN [ ok |-> TRUE, text |-> DocText(out) ]
    ELSE LET f == fs[relative_to(resolve(path))]
         IN  [ ok |-> f.readable, text |-> f.text ]

\* lighting_crate.rglob("*") below directory d: the entries of d, then
\* those of each subdirectory, in the order the OS lists them
RECURSIVE rglob(_)
rglob(d) ==
    scan[d].files
      \o Flatten([ i \in 1..Len(scan[d].dirs) |-> rglob(scan[d].dirs[i]) ])

\* the filenames os.walk reports for directory d (relative)
filenames(d) ==
    scan[d].files
      \o (IF d = <<>> /\ out # <<>> THEN << relative_to(OUTPUT_PATH) >>
          ELSE <<>>)

(* ---------------------------- the program ----------------------------- *)

is_skipped_dir(path) == \E p \in Parts(path) : p \in SKIP_DIRS

\* file_matches without the try/except around read_text
file_matches_uncaught(path) ==
    IF ~is_file(path) THEN "False"
    ELSE IF Suffix(path) \notin DOMAIN CODE_EXTS THEN "False"
    ELSE IF ~read_text(path).ok THEN "Raise"
    ELSE IF PATTERNS(read_text(path).text) THEN "True" ELSE "False"

\* "True", "False", or "Raise" when an exception leaves the function
file_matches(path) ==
    IF ~is_file(path) THEN "False"
    ELSE IF Suffix(path) \notin DOMAIN CODE_EXTS THEN "False"
    ELSE IF ~read_text(path).ok THEN "False"
    ELSE IF PATTERNS(read_text(path).text) THEN "True" ELSE "False"

\* phase 1 with the content check of phase 2 applied to it as well
phase1_keep_matching(p) ==
    is_file(p) /\ Suffix(p) \in DOMAIN CODE_EXTS /\ file_matches(p) = "True"

\* line 65: the filter of phase 1
phase1_keep(p) == is_file(p) /\ Suffix(p) \in DOMAIN CODE_EXTS

\* lines 63-66
phase1_files ==
    IF exists(lighting_crate)
    THEN LET found == rglob(PrimaryRel)
         IN  SelectSeq([ i \in 1..Len(found) |-> REPO_ROOT \o found[i] ],
                       phase1_keep)
    ELSE <<>>

\* str(lighting_crate)
lighting_crate_str == Str(lighting_crate)

\* line 77: the test that leaves the lighting crate to phase 1
in_lighting_crate(root_path) ==
    \/ root_path = lighting_crate
    \/ IsPrefix(lighting_crate_str, Str(root_path))

\* line 82 without the call of file_matches
phase2_keep_any(p) ==
    IF Suffix(p) \in DOMAIN CODE_EXTS /\ is_file(p) THEN "True" ELSE "False"

\* line 82: "True", "False" or "Raise" for one file of the walk
phase2_keep(p) ==
    IF Suffix(p) \in DOMAIN CODE_EXTS THEN file_matches(p) ELSE "False"

\* os.walk(top), top-down: the directories it yields, in order.  A yielded
\* directory that is_skipped_dir has its dirs emptied by the loop body
\* (line 74), so the walk does not descend into it.
RECURSIVE os_walk(_)
os_walk(top) ==
    LET dirs == scan[relative_to(top)].dirs
    IN  << top >>
          \o (IF is_skipped_dir(top) THEN <<>>
              ELSE Flatten([ i \in 1..Len(dirs) |->
                               os_walk(REPO_ROOT \o dirs[i]) ]))

\* lines 80-81: the paths p of the files of root_path
walk_paths(root_path) ==
    LET names == filenames(relative_to(root_path))
    IN  [ i \in 1..Len(names) |-> REPO_ROOT \o names[i] ]

\* lines 70-83: whether the loop body examines the files of root_path
walk_examines(root_path) ==
    ~is_skipped_dir(root_path) /\ ~in_lighting_crate(root_path)

\* lines 80-83: the inner loop over the files ps of one directory: the
\* files it appends, or raised when an exception leaves it
walk_files(ps) ==
    [ raised |-> \E i \in 1..Len(ps) : phase2_keep(ps[i]) = "Raise",
      found  |-> SelectSeq(ps, LAMBDA p : phase2_keep(p) = "True") ]

\* lines 70-83: the loop body for the directory root_path
walk_body(root_path) ==
    IF walk_examines(root_path) THEN walk_files(walk_paths(root_path))
    ELSE [ raised |-> FALSE, found |-> <<>> ]

\* lines 69-83: the loop over the directories visited, entered with the
\* list files being acc.  The result is the list after the loop, or raised
\* when an exception leaves it.
walk_over(visited, acc) ==
    IF \E k \in 1..Len(visited) : walk_body(visited[k]).raised
    THEN [ raised |-> TRUE, files |-> acc ]
    ELSE [ raised |-> FALSE,
           files  |-> acc \o Flatten([ k \in 1..Len(visited) |->
                                         walk_body(visited[k]).found ]) ]

walk_loop(acc) == walk_over(os_walk(REPO_ROOT), acc)

\* lines 86-93
RECURSIVE dedupe_loop(_, _, _)
dedupe_loop(rest, seen, ord) ==
    IF rest = <<>> THEN ord
    ELSE LET p  == Head(rest)
             rp == resolve(p)
         IN  IF rp \notin seen
             THEN dedupe_loop(Tail(rest), seen \cup {rp}, Append(ord, p))
             ELSE dedupe_loop(Tail(rest), seen, ord)

\* de-duplication by the path as collected, without resolve()
dedupe_unresolved(fl) == Uniq(fl)

dedupe(fl) == dedupe_loop(fl, {}, <<>>)

language_for(path) ==
    IF Suffix(path) \in DOMAIN CODE_EXTS THEN CODE_EXTS[Suffix(path)] ELSE ""

\* one element of the list lines of write_bundle
Line(kind, rp, n, lang, text) ==
    [ kind |-> kind, rp |-> rp, n |-> n, lang |-> lang, text |-> text ]

Blank == Line("blank", <<>>, 0, "", <<>>)

TitleText == << "#", " ", "Lighting", " ", "Code", " ", "Bundle" >>

SentenceText == << "This", " ", "file", " ", "aggregates", " ", "lighting",
                   "-", "related", " ", "code", " ", "for", " ", "review",
                   " ", "and", " ", "optimization", "." >>

ErrorText == << "<", "Error", " ", "reading", " ", "file", ": ", "Errno",
                ">" >>

\* lines 105-111
header_lines(ts) ==
    << Line("title", <<>>, 0, "", TitleText),
       Blank,
       Line("generated", <<>>, ts, "", <<>>),
       Line("repository", REPO_ROOT, 0, "", <<>>),
       Blank,
       Line("sentence", <<>>, 0, "", SentenceText),
       Blank >>

\* the table of contents with enumerate() left at its default start of 0
toc_lines_from0(fl) ==
    << Line("toc_heading", <<>>, 0, "", <<>>) >>
      \o [ i \in 1..Len(fl) |->
             Line("toc", relative_to(fl[i]), i - 1, "", <<>>) ]
      \o << Blank >>

\* lines 114-117
toc_lines(fl) ==
    << Line("toc_heading", <<>>, 0, "", <<>>) >>
      \o [ i \in 1..Len(fl) |-> Line("toc", relative_to(fl[i]), i, "", <<>>) ]
      \o << Blank >>

\* the section without line 131, which clears lang when the read fails
section_lines_keep_lang(i, p) ==
    LET r == read_text(p)
        content == IF r.ok THEN r.text ELSE ErrorText
        lang == language_for(p)
    IN  << Line("sep", <<>>, 0, "", <<>>),
           Blank,
           Line("heading", relative_to(p), 0, "", <<>>),
           Line("anchor", <<>>, i, "", <<>>),
           Blank,
           Line("fence", <<>>, 0, lang, <<>>),
           Line("content", <<>>, 0, "", content),
           Line("fence_close", <<>>, 0, "", <<>>),
           Blank >>

\* lines 121-135: the section of the i-th file p
section_lines(i, p) ==
    LET r == read_text(p)
        content == IF r.ok THEN r.text ELSE ErrorText
        lang == IF r.ok THEN language_for(p) ELSE ""
    IN  << Line("sep", <<>>, 0, "", <<>>),
           Blank,
           Line("heading", relative_to(p), 0, "", <<>>),
           Line("anchor", <<>>, i, "", <<>>),
           Blank,
           Line("fence", <<>>, 0, lang, <<>>),
           Line("content", <<>>, 0, "", content),
           Line("fence_close", <<>>, 0, "", <<>>),
           Blank >>

\* lines 101-135: the list lines that write_bundle joins and writes
write_bundle(fl, ts) ==
    header_lines(ts)
      \o toc_lines(fl)
      \o Flatten([ i \in 1..Len(fl) |-> section_lines(i, fl[i]) ])

\* line 142 as "if len(files) <= 1"
no_files_le1(fl) == Len(fl) <= 1

\* line 142: "if not files"
no_files(fl) == fl = <<>>

(* ----------------------------- actions -------------------------------- *)

\* a bundle left by an earlier run of the script
OldBundle == header_lines(0) \o toc_lines(<<>>)

\* The state when main() is entered: any tree of at most MaxFiles entries,
\* listed by the OS in any order, with or without an earlier
\* LightingBundle.md.
Init ==
    /\ \E present \in SUBSET Cand :
         /\ Cardinality(present) <= MaxFiles
         /\ scan \in Scans(present)
         /\ fs \in Trees(present)
    /\ out \in { <<>>, OldBundle }
    /\ clock = 1
    /\ pc = "start"
    /\ files = <<>>
    /\ ordered = <<>>
    /\ ret = -1
    /\ writes = 0
    /\ run = 1
    /\ prev = [ ordered |-> <<>>, out |-> out, ret |-> -1 ]

\* main, line 141: files = discover_files() (lines 58-93)
Discover ==
    /\ pc = "start"
    /\ LET r == walk_loop(phase1_files)
       IN  IF r.raised
           THEN /\ pc' = "crashed"
                /\ UNCHANGED << files, ordered >>
           ELSE /\ files' = r.files
                /\ ordered' = dedupe(r.files)
                /\ pc' = "main"
    /\ UNCHANGED << fs, scan, out, clock, ret, writes, run, prev >>

\* main, lines 142-144
MainNoFiles ==
    /\ pc = "main"
    /\ no_files(ordered)
    /\ ret' = 1
    /\ pc' = "done"
    /\ UNCHANGED << fs, scan, out, clock, files, ordered,
                    writes, run, prev >>

\* main, lines 145-147: write_bundle.  The first run reads the clock as it
\* stands; by the time the second run reads it, the second has passed or not.
MainWrite ==
    /\ pc = "main"
    /\ ~no_files(ordered)
    /\ \E ts \in { clock, clock + run - 1 } :
         /\ clock' = ts
         /\ out' = write_bundle(ordered, ts)
    /\ writes' = writes + 1
    /\ ret' = 0
    /\ pc' = "done"
    /\ UNCHANGED << fs, scan, files, ordered, run, prev >>

\* the script is run again on the tree as the first run left it
SecondRun ==
    /\ pc = "done"
    /\ run = 1
    /\ run' = 2
    /\ prev' = [ ordered |-> ordered, out |-> out, ret |-> ret ]
    /\ pc' = "start"
    /\ files' = <<>>
    /\ ordered' = <<>>
    /\ ret' = -1
    /\ writes' = 0
    /\ UNCHANGED << fs, scan, out, clock >>

Next == \/ Discover
        \/ MainNoFiles
        \/ MainWrite
        \/ SecondRun

Spec == Init /\ [][Next]_vars

(* ------------------------- vocabulary of the properties --------------- *)

Discovered == pc \in { "main", "done" }

Written == pc = "done" /\ ret = 0

\* rel lies beneath a directory whose name is skip-listed
UnderSkip(rel) == \E i \in 1..(Len(rel) - 1) : rel[i] \in SKIP_DIRS

\* rel lies beneath crates/geist-lighting
UnderPrimary(rel) ==
    /\ Len(rel) > Len(PrimaryRel)
    /\ \A i \in 1..Len(PrimaryRel) : rel[i] = PrimaryRel[i]

Eligible(rel) == Suffix(rel) \in { ".rs", ".toml", ".ron" }

Regular(rel) == rel \in DOMAIN fs /\ rel \notin Links

\* rel is in the list discover_files returned
Listed(rel) == \E i \in 1..Len(ordered) : ordered[i] = REPO_ROOT \o rel

\* the output file has a table-of-contents entry or a section for rel
Bundled(rel) ==
    \E k \in 1..Len(out) : out[k].kind \in { "toc", "heading" } /\ out[k].rp = rel

\* the file an entry of the list stands for, and whether it can be read
Target(p) ==
    LET rel == SubSeq(p, Len(REPO_ROOT) + 1, Len(p))
    IN  IF rel \in Links THEN LinkTarget(rel) ELSE rel

Readable(p) == fs[Target(p)].readable

LinesOf(kind) == SelectSeq(out, LAMBDA l : l.kind = kind)

(* ------------------------------ C1 ------------------------------------ *)

\* C1: after discovery and writing, no file beneath a skip-listed directory
\* (at any depth, also beneath crates/geist-lighting) is in the discovered
\* list or in the bundle.
C1_SkippedNeverAppears ==
    Discovered =>
        \A rel \in DOMAIN fs : UnderSkip(rel) => ~Listed(rel) /\ ~Bundled(rel)

(* ------------------------------ C2 ------------------------------------ *)

\* C2: every regular file outside crates/geist-lighting with no skip-listed
\* directory on its path from the root, an eligible extension and a readable
\* text that some pattern matches is in the list discover_files returns.
C2_MatchingOutsideListed ==
    Discovered =>
        \A rel \in DOMAIN fs :
            ( /\ Regular(rel)
              /\ ~UnderPrimary(rel)
              /\ ~UnderSkip(rel)
              /\ Eligible(rel)
              /\ fs[rel].readable
              /\ PATTERNS(fs[rel].text) ) => Listed(rel)

(* ------------------------------ C3 ------------------------------------ *)

\* C3 as stated: every regular file beneath crates/geist-lighting with an
\* eligible extension is in the returned list, whatever its text.
C3_PrimaryAlwaysListed ==
    Discovered =>
        \A rel \in DOMAIN fs :
            (Regular(rel) /\ UnderPrimary(rel) /\ Eligible(rel)) => Listed(rel)

\* C3 amended: every regular file beneath crates/geist-lighting with an
\* eligible extension is, whatever its text, represented in the returned
\* list: by itself, or else by an entry collected before it that resolves
\* to it (a symbolic link to the file).
C3_PrimaryAlwaysRepresented ==
    Discovered =>
        \A rel \in DOMAIN fs :
            (Regular(rel) /\ UnderPrimary(rel) /\ Eligible(rel)) =>
                \/ Listed(rel)
                \/ \E i \in 1..Len(ordered) : \E j, k \in 1..Len(files) :
                      /\ Target(ordered[i]) = rel
                      /\ files[j] = ordered[i]
                      /\ files[k] = REPO_ROOT \o rel
                      /\ j < k

\* a file of the primary directory whose text no pattern matches is listed
C3_Witness ==
    /\ Discovered
    /\ \E rel \in DOMAIN fs :
          /\ Regular(rel) /\ UnderPrimary(rel) /\ Eligible(rel)
          /\ ~PATTERNS(fs[rel].text)
          /\ Listed(rel)
    /\ \E rel \in DOMAIN fs :
          /\ Regular(rel) /\ UnderPrimary(rel) /\ ~Listed(rel)
          /\ \E i \in 1..Len(ordered) :
                ordered[i] # REPO_ROOT \o rel /\ Target(ordered[i]) = rel

(* ------------------------------ C4 ------------------------------------ *)

\* C4: a file outside crates/geist-lighting with an eligible extension whose
\* text no pattern matches is not in the returned list and has no section
\* (and no table-of-contents entry) in the bundle.
C4_NonMatchingOutsideAbsent ==
    Discovered =>
        \A rel \in DOMAIN fs :
            ( /\ Regular(rel)
              /\ ~UnderPrimary(rel)
              /\ Eligible(rel)
              /\ ~PATTERNS(fs[rel].text) ) => ~Listed(rel) /\ ~Bundled(rel)

\* a bundle was written while a readable, non-matching, walked file exists
C4_Witness ==
    /\ Written
    /\ OthB \in DOMAIN fs
    /\ fs[OthB].readable
    /\ ~PATTERNS(fs[OthB].text)
    /\ \E i \in 1..Len(ordered) : ~UnderPrimary(relative_to(ordered[i]))

(* ------------------------------ C5 ------------------------------------ *)

\* C5: main returns 1 exactly when discovery returned the empty list, and
\* then the output file is not written and keeps its previous content; in
\* every other completed run the output file is written exactly once, after
\* discovery, and main returns 0.
C5_ExitStatusAndWrite ==
    /\ pc = "done" =>
          /\ ret \in { 0, 1 }
          /\ ret = 1 <=> ordered = <<>>
          /\ ret = 1 => writes = 0 /\ out = prev.out
          /\ ret = 0 => writes = 1 /\ out # <<>>
    /\ pc # "done" => writes = 0 /\ out = prev.out /\ ret = -1

\* a run found nothing and left an existing bundle as it was
C5_Witness ==
    /\ pc = "done"
    /\ ret = 1
    /\ out # <<>>
    /\ DOMAIN fs # {}

(* ------------------------------ C6 ------------------------------------ *)

\* C6: the document has exactly one table-of-contents entry and one section
\* per file of the list, in the order of the list; the i-th entry names the
\* relative path of the i-th heading and links to file-i, the i-th section
\* carries the anchor file-i, and every entry precedes every section.
C6_TocMatchesSections ==
    Written =>
        LET toc     == LinesOf("toc")
            heads   == LinesOf("heading")
            anchors == LinesOf("anchor")
            marks   == SelectSeq(out, LAMBDA l :
                                   l.kind \in { "toc", "heading", "anchor" })
            n       == Len(ordered)
        IN  /\ Len(toc) = n /\ Len(heads) = n /\ Len(anchors) = n
            /\ \A i \in 1..n :
                  /\ toc[i].rp = SubSeq(ordered[i], Len(REPO_ROOT) + 1,
                                        Len(ordered[i]))
                  /\ toc[i].n = i
                  /\ heads[i].rp = toc[i].rp
                  /\ anchors[i].n = i
                  /\ marks[i].kind = "toc"
                  /\ marks[n + 2*i - 1] = heads[i]
                  /\ marks[n + 2*i] = anchors[i]

\* a bundle of at least two files was written
C6_Witness == Written /\ Len(ordered) >= 2

(* ------------------------------ C7 ------------------------------------ *)

\* C7: a second run on the unchanged tree (only LightingBundle.md differs)
\* discovers the same list in the same order and writes a document that
\* differs from the first at most in the Generated line.
C7_SecondRunSame ==
    (run = 2 /\ pc = "done") =>
        /\ ordered = prev.ordered
        /\ ret = prev.ret
        /\ Len(out) = Len(prev.out)
        /\ \A k \in 1..Len(out) :
              out[k].kind # "generated" => out[k] = prev.out[k]
        /\ \A k \in 1..Len(out) : out[k].kind = "generated" <=> k = 3

\* the second run wrote, a second later, a bundle of at least two files
C7_Witness ==
    /\ run = 2
    /\ Written
    /\ Len(ordered) >= 2
    /\ out # prev.out

(* ------------------------------ C8 ------------------------------------ *)

\* indices of files whose resolved path no earlier entry has
FirstSeen ==
    { k \in 1..Len(files) :
        \A j \in 1..(k - 1) : Target(files[j]) # Target(files[k]) }

\* C8: the returned list has no two entries resolving to the same path; it
\* is the collected list restricted to the first entry of each resolved
\* path, in collection order; and every entry of phase 1 precedes every
\* entry of phase 2.
C8_DedupFirstSeen ==
    Discovered =>
        /\ \A i, j \in 1..Len(ordered) :
              i # j => Target(ordered[i]) # Target(ordered[j])
        /\ Len(ordered) = Cardinality(FirstSeen)
        /\ \A k \in FirstSeen :
              ordered[Cardinality({ j \in FirstSeen : j <= k })] = files[k]
        /\ \A i, j \in 1..Len(ordered) :
              ( /\ UnderPrimary(SubSeq(ordered[i], Len(REPO_ROOT) + 1,
                                       Len(ordered[i])))
                /\ ~UnderPrimary(SubSeq(ordered[j], Len(REPO_ROOT) + 1,
                                        Len(ordered[j]))) ) => i < j

\* phase 2 collected a file that a link collected in phase 1 resolves to,
\* and the link is the entry that survived
C8_Witness ==
    /\ Discovered
    /\ \E j, k \in 1..Len(files) :
          /\ j < k
          /\ files[j] = REPO_ROOT \o LnkL
          /\ files[k] = REPO_ROOT \o OthB
    /\ Listed(LnkL)
    /\ ~Listed(OthB)
    /\ Len(ordered) >= 2

(* ------------------------------ C9 ------------------------------------ *)

\* C9: when reading the i-th file fails in write_bundle, its section still
\* has heading and anchor, its code block holds the error placeholder and
\* its fence has an empty language tag; the other sections are rendered
\* normally and the file is written.  A fence has an empty language tag
\* only when the read failed.
C9_ReadFailureSection ==
    Written =>
        LET heads    == LinesOf("heading")
            anchors  == LinesOf("anchor")
            fences   == LinesOf("fence")
            contents == LinesOf("content")
            n        == Len(ordered)
        IN  /\ writes = 1
            /\ Len(heads) = n /\ Len(anchors) = n
            /\ Len(fences) = n /\ Len(contents) = n
            /\ \A i \in 1..n :
                  /\ heads[i].rp = SubSeq(ordered[i], Len(REPO_ROOT) + 1,
                                          Len(ordered[i]))
                  /\ anchors[i].n = i
                  /\ ~Readable(ordered[i]) =>
                        fences[i].lang = "" /\ contents[i].text = ErrorText
                  /\ Readable(ordered[i]) =>
                        /\ fences[i].lang \in { "rust", "toml", "ron" }
                        /\ contents[i].text = fs[Target(ordered[i])].text

\* a bundle in which a section whose read failed is followed by a normal one
C9_Witness ==
    /\ Written
    /\ \E i, j \in 1..Len(ordered) :
          i < j /\ ~Readable(ordered[i]) /\ Readable(ordered[j])

(* ------------------------------ C10 ----------------------------------- *)

\* C10: every path in the returned list is an existing file (a regular file,
\* or a link to one) whose extension is a key of CODE_EXTS, in both phases;
\* a file whose read fails during matching counts as non-matching and
\* discovery does not abort.
C10_ListedAreEligibleFiles ==
    /\ pc # "crashed"
    /\ Discovered =>
          /\ \A i \in 1..Len(ordered) :
                LET rel == SubSeq(ordered[i], Len(REPO_ROOT) + 1,
                                  Len(ordered[i]))
                IN  /\ rel \in DOMAIN fs
                    /\ Target(ordered[i]) \in DOMAIN fs
                    /\ Eligible(rel)
          /\ \A rel \in DOMAIN fs :
                (Regular(rel) /\ ~UnderPrimary(rel) /\ ~fs[rel].readable)
                    => ~Listed(rel)

\* discovery finished with a non-empty list although a walked file with an
\* eligible extension could not be read
C10_Witness ==
    /\ Discovered
    /\ OthB \in DOMAIN fs
    /\ ~fs[OthB].readable
    /\ ordered # <<>>

====
